---- MODULE Spec2Model ----
(***************************************************************************)
(* bakker: a deduplicating backup engine.  bakker/checkpoint.py builds a   *)
(* tree of nodes from a directory, hashes it bottom-up, serialises it and  *)
(* names it; the storage engine stores blobs by checksum and restores a    *)
(* checkpoint into a destination directory.                                *)
(*                                                                         *)
(* Strings are sequences of one-character strings, so that split, length   *)
(* and concatenation are computed as Python computes them.                 *)
(***************************************************************************)
EXTENDS Integers, Sequences, FiniteSets, TLC

(***************************************************************************)
(* Bounds of the model.                                                    *)
(***************************************************************************)
\* the longest file content, in bytes
MaxBytes == 1
\* the longest checkpoint name, in characters
MaxNameLen == 3
\* how many levels of directories a walked tree has below its root
MaxDepth == 2
\* how many blobs are lost in one behaviour
MaxLost == 1

\* FileNode.build_node reads the file in blocks of this many bytes
BLOCKSIZE == 65536

(***************************************************************************)
(* Strings.                                                                *)
(***************************************************************************)
\* the characters sorted() has to compare, in code-point order
Alphabet == <<"-", ".", "/", "0", "1", "2", "3", "4", "5", "6", "7", "8", "9",
              ":", "<", ">", "T", "_", "a", "b", "c", "x", "y">>

ord(c) == CHOOSE i \in 1..Len(Alphabet) : Alphabet[i] = c

RECURSIVE str_lt(_, _)
\* s < t on Python strings: lexicographic by code point, a prefix first
str_lt(s, t) ==
  IF Len(t) = 0 THEN FALSE
  ELSE IF Len(s) = 0 THEN TRUE
  ELSE IF Head(s) = Head(t) THEN str_lt(Tail(s), Tail(t))
  ELSE ord(Head(s)) < ord(Head(t))

RECURSIVE sorted(_)
\* sorted(keys) of a set of strings
sorted(S) ==
  IF S = {} THEN <<>>
  ELSE LET m == CHOOSE x \in S : \A y \in S \ {x} : str_lt(x, y)
       IN  <<m>> \o sorted(S \ {m})

\* os.path.join(path, name) for a name that is not absolute
os_path_join(path, name) ==
  IF Len(path) = 0 THEN name
  ELSE IF path[Len(path)] = "/" THEN path \o name
  ELSE path \o <<"/">> \o name

(***************************************************************************)
(* xxhash.xxh64, taken to be free of collisions: the digest of a message   *)
(* is the message between two marks that no file byte, link target or name *)
(* contains, so distinct messages have distinct digests and a              *)
(* concatenation of digests splits in one way only, as a concatenation of  *)
(* fixed-width hex digests does.                                           *)
(***************************************************************************)
xxh64 == <<>>

update(message, data) == message \o data

hexdigest(message) == <<"<">> \o message \o <<">">>

(***************************************************************************)
(* The file system.  An entry is a record                                  *)
(*   kind     "file", "symlink", "dir" or "other" (a pipe, socket, device) *)
(*   data     the bytes of a file, the target string of a symlink          *)
(*   resolves what following the entry finds: "file", "dir", "other", or   *)
(*            "none" for a symlink whose target does not exist             *)
(*   listing  of a directory: <<[name, entry], ...>> in os.listdir order   *)
(*   perm     stat.S_IMODE(os.lstat(path).st_mode)                         *)
(***************************************************************************)
File(bytes, perm) ==
  [kind |-> "file", data |-> bytes, resolves |-> "file", listing |-> <<>>, perm |-> perm]

Symlink(target, resolves) ==
  [kind |-> "symlink", data |-> target, resolves |-> resolves, listing |-> <<>>, perm |-> 511]

Dir(listing, perm) ==
  [kind |-> "dir", data |-> <<>>, resolves |-> "dir", listing |-> listing, perm |-> perm]

Other ==
  [kind |-> "other", data |-> <<>>, resolves |-> "other", listing |-> <<>>, perm |-> 420]

os_path_islink(e) == e.kind = "symlink"

\* os.path.isfile and os.path.isdir follow symbolic links
os_path_isfile(e) == e.resolves = "file"

os_path_isdir(e) == e.resolves = "dir"

(***************************************************************************)
(* Tree nodes.  children is the dict of a DirectoryNode, in insertion      *)
(* order: <<[key, node], ...>>.  NoneNode is Python's None.                *)
(***************************************************************************)
TreeNode(type, name, checksum, permissions, children) ==
  [type |-> type, name |-> name, checksum |-> checksum,
   permissions |-> permissions, children |-> children]

NoneNode == TreeNode("none", <<>>, <<>>, 0, <<>>)

\* d[key] = value on a dict kept in insertion order
dict_set(d, key, value) ==
  IF \E i \in 1..Len(d) : d[i].key = key
  THEN [i \in 1..Len(d) |-> IF d[i].key = key THEN [key |-> key, node |-> value] ELSE d[i]]
  ELSE Append(d, [key |-> key, node |-> value])

dict_keys(d) == {d[i].key : i \in 1..Len(d)}

dict_get(d, key) == d[CHOOSE i \in 1..Len(d) : d[i].key = key].node

RECURSIVE read_blocks(_, _)
\* the read loop of FileNode.build_node: one update per block read
read_blocks(bytes, message) ==
  IF Len(bytes) = 0 THEN message
  ELSE LET n == IF Len(bytes) < BLOCKSIZE THEN Len(bytes) ELSE BLOCKSIZE
       IN  read_blocks(SubSeq(bytes, n + 1, Len(bytes)),
                       update(message, SubSeq(bytes, 1, n)))

\* FileNode.build_node with the name fed to the hash where the bytes belong
FileNode_build_node_hash_name(e, name) ==
  TreeNode("file", name, hexdigest(update(xxh64, name)), e.perm, <<>>)

FileNode_build_node(e, name) ==
  TreeNode("file", name, hexdigest(read_blocks(e.data, xxh64)), e.perm, <<>>)

SymlinkNode_build_node(e, name) ==
  TreeNode("symlink", name, hexdigest(update(xxh64, e.data)), e.perm, <<>>)

RECURSIVE concat_digests(_, _, _)
\* the update loop over child_checksums
concat_digests(children, names, message) ==
  IF Len(names) = 0 THEN message
  ELSE concat_digests(children, Tail(names),
                      update(message, dict_get(children, Head(names)).checksum))

\* the test that makes DirectoryNode.build_node ignore a listed entry
Ignored(child) == ~os_path_isfile(child) /\ ~os_path_isdir(child)

RECURSIVE TreeNode_build_node(_, _)
RECURSIVE build_children(_, _)

\* the for loop of DirectoryNode.build_node over os.listdir(path)
build_children(listing, children) ==
  IF Len(listing) = 0 THEN children
  ELSE LET item == Head(listing)
       IN  IF Ignored(item.entry)
           THEN build_children(Tail(listing), children)
           ELSE build_children(Tail(listing),
                  dict_set(children, item.name,
                           TreeNode_build_node(item.entry, item.name)))

\* DirectoryNode.build_node with sorted() forgotten: the digests are fed in
\* insertion order
DirectoryNode_build_node_unsorted(e, name) ==
  LET children == build_children(e.listing, <<>>)
      keys == [i \in 1..Len(children) |-> children[i].key]
  IN  TreeNode("directory", name, hexdigest(concat_digests(children, keys, xxh64)),
               e.perm, children)

DirectoryNode_build_node(e, name) ==
  LET children == build_children(e.listing, <<>>)
      checksum == hexdigest(concat_digests(children, sorted(dict_keys(children)), xxh64))
  IN  TreeNode("directory", name, checksum, e.perm, children)

TreeNode_build_node(e, name) ==
  IF os_path_islink(e) THEN SymlinkNode_build_node(e, name)
  ELSE IF os_path_isfile(e) THEN FileNode_build_node(e, name)
  ELSE IF os_path_isdir(e) THEN DirectoryNode_build_node(e, name)
  ELSE NoneNode

(***************************************************************************)
(* Times.  A datetime is [second, microsecond]; the date, hour and minute  *)
(* are the same in every time drawn and are kept as the 17 characters they *)
(* print as.                                                               *)
(***************************************************************************)
DatePrefix == <<"2", "0", "2", "4", "-", "0", "1", "-", "0", "1", "T",
                "0", "0", ":", "0", "0", ":">>

Digits == <<"0", "1", "2", "3", "4", "5", "6", "7", "8", "9">>

RECURSIVE zfill(_, _)
\* n in decimal, zero-padded to width characters
zfill(n, width) ==
  IF width = 0 THEN <<>>
  ELSE Append(zfill(n \div 10, width - 1), Digits[(n % 10) + 1])

RECURSIVE int(_)
\* int(s) of a string of decimal digits
int(s) ==
  IF Len(s) = 0 THEN 0
  ELSE 10 * int(SubSeq(s, 1, Len(s) - 1))
       + (CHOOSE d \in 0..9 : Digits[d + 1] = s[Len(s)])

IsDigits(s) == \A i \in 1..Len(s) : \E d \in 1..10 : Digits[d] = s[i]

\* datetime.isoformat(): the microseconds are printed only when not zero
isoformat(time) ==
  DatePrefix \o zfill(time.second, 2)
  \o (IF time.microsecond = 0 THEN <<>> ELSE <<".">> \o zfill(time.microsecond, 6))

ValueError == [second |-> -1, microsecond |-> -1]

\* utils.datetime_from_iso_format: accepts the 19-character form and the
\* form with microseconds
datetime_from_iso_format(string) ==
  IF Len(string) >= 19 /\ SubSeq(string, 1, 17) = DatePrefix
     /\ IsDigits(SubSeq(string, 18, 19))
  THEN IF Len(string) = 19
       THEN [second |-> int(SubSeq(string, 18, 19)), microsecond |-> 0]
       ELSE IF Len(string) = 26 /\ string[20] = "." /\ IsDigits(SubSeq(string, 21, 26))
            THEN [second |-> int(SubSeq(string, 18, 19)),
                  microsecond |-> int(SubSeq(string, 21, 26))]
            ELSE ValueError
  ELSE ValueError

(***************************************************************************)
(* Checkpoint.                                                             *)
(***************************************************************************)
\* Python's None, where a name is expected: no string is this sequence
None == <<"None">>

NameChars == {"a", "b", "c", "x", "y", "T", "0", "1", "2", "3", "4", "5",
              "6", "7", "8", "9", "_", "-", "."}

\* re.match('^[a-zA-Z0-9_\-.]+$', name): $ matches at the end of the string
\* and also just before a newline that ends the string
re_match(name) ==
  \E k \in 1..Len(name) :
    /\ \A i \in 1..k : name[i] \in NameChars
    /\ \/ k = Len(name)
       \/ k = Len(name) - 1 /\ name[Len(name)] = "\n"

\* Checkpoint.__init__ with a time given; raised names the assertion's failure
Checkpoint(root, time, name) ==
  IF name = None \/ re_match(name)
  THEN [raised |-> "", root |-> root, time |-> time, name |-> name]
  ELSE [raised |-> "AssertionError", root |-> NoneNode, time |-> ValueError, name |-> None]

\* Checkpoint.build_checkpoint; now is what datetime.now() returns
build_checkpoint(e, name, now) == Checkpoint(TreeNode_build_node(e, <<>>), now, name)

CheckpointMeta(checksum, time, name) ==
  [checksum |-> checksum, time |-> time, name |-> name]

\* the meta property
meta(cp) == CheckpointMeta(cp.root.checksum, cp.time, cp.name)

\* Checkpoint.iter with the isinstance test never true: no child is pushed
iter_step_no_push(stack) ==
  [yield |-> stack[Len(stack)], stack |-> SubSeq(stack, 1, Len(stack) - 1)]

\* Checkpoint.iter pushing the children in reversed(children.items()) order
iter_step_reversed_push(stack) ==
  LET current == stack[Len(stack)]
      rest == SubSeq(stack, 1, Len(stack) - 1)
      items == current.node.children
      pushed == [i \in 1..Len(items) |->
                   [node |-> items[Len(items) + 1 - i].node,
                    path |-> os_path_join(current.path, items[Len(items) + 1 - i].key)]]
  IN  [yield |-> current,
       stack |-> IF current.node.type = "directory" THEN rest \o pushed ELSE rest]

\* one turn of the while loop of Checkpoint.iter: the pair popped and yielded,
\* and the stack after the children are pushed
iter_step(stack) ==
  LET current == stack[Len(stack)]
      rest == SubSeq(stack, 1, Len(stack) - 1)
      items == current.node.children
      pushed == [i \in 1..Len(items) |->
                   [node |-> items[i].node,
                    path |-> os_path_join(current.path, items[i].key)]]
  IN  [yield |-> current,
       stack |-> IF current.node.type = "directory" THEN rest \o pushed ELSE rest]

RECURSIVE iter_run(_)
iter_run(stack) ==
  IF Len(stack) = 0 THEN <<>>
  ELSE LET s == iter_step(stack) IN <<s.yield>> \o iter_run(s.stack)

\* list(checkpoint.iter())
iter(cp) == iter_run(<<[node |-> cp.root, path |-> <<>>]>>)

(***************************************************************************)
(* Serialisation.  A JSON document is modelled by the value it denotes.    *)
(***************************************************************************)
RECURSIVE to_dict(_)
to_dict(node) ==
  [name |-> node.name, checksum |-> node.checksum, permissions |-> node.permissions,
   children |-> IF node.type = "directory"
                THEN [i \in 1..Len(node.children) |-> to_dict(node.children[i].node)]
                ELSE <<>>,
   type |-> node.type]

TypeErrorNode == TreeNode("TypeError", <<>>, <<>>, 0, <<>>)

RECURSIVE TreeNode_from_dict(_)
RECURSIVE from_dict_children(_, _)

\* the dict comprehension of DirectoryNode.from_dict
from_dict_children(list, children) ==
  IF Len(list) = 0 THEN children
  ELSE from_dict_children(Tail(list),
         dict_set(children, Head(list).name, TreeNode_from_dict(Head(list))))

\* TreeNode.from_dict with the symlink branch building a FileNode
TreeNode_from_dict_symlink_as_file(d) ==
  IF d.type = "directory"
  THEN TreeNode("directory", d.name, d.checksum, d.permissions,
                from_dict_children(d.children, <<>>))
  ELSE IF d.type \in {"file", "symlink"}
  THEN TreeNode("file", d.name, d.checksum, d.permissions, <<>>)
  ELSE TypeErrorNode

TreeNode_from_dict(d) ==
  IF d.type = "directory"
  THEN TreeNode("directory", d.name, d.checksum, d.permissions,
                from_dict_children(d.children, <<>>))
  ELSE IF d.type = "file"
  THEN TreeNode("file", d.name, d.checksum, d.permissions, <<>>)
  ELSE IF d.type = "symlink"
  THEN TreeNode("symlink", d.name, d.checksum, d.permissions, <<>>)
  ELSE TypeErrorNode

to_json(cp) == [root |-> to_dict(cp.root), time |-> isoformat(cp.time), name |-> cp.name]

from_json(json_str) ==
  Checkpoint(TreeNode_from_dict(json_str.root),
             datetime_from_iso_format(json_str.time), json_str.name)

(***************************************************************************)
(* CheckpointMeta: the identifier of a stored checkpoint.                  *)
(***************************************************************************)
RECURSIVE str_split(_, _, _)
\* string.split(sep, maxsplit) for a one-character separator
str_split(string, sep, maxsplit) ==
  IF maxsplit = 0 \/ ~\E i \in 1..Len(string) : string[i] = sep
  THEN <<string>>
  ELSE LET i == CHOOSE j \in 1..Len(string) :
                  string[j] = sep /\ \A k \in 1..(j - 1) : string[k] # sep
       IN  <<SubSeq(string, 1, i - 1)>>
           \o str_split(SubSeq(string, i + 1, Len(string)), sep, maxsplit - 1)

to_string(m) ==
  LET timestring == isoformat(m.time)
      padded == timestring \o (IF Len(timestring) = 19
                               THEN <<".", "0", "0", "0", "0", "0", "0">> ELSE <<>>)
  IN  m.checksum \o <<"_">> \o padded
      \o (IF m.name # None /\ m.name # <<>> THEN <<"_">> \o m.name ELSE <<>>)

\* CheckpointMeta.from_string splitting on every underscore
from_string_split_all(string) ==
  LET boom == str_split(string, "_", -1)
  IN  CheckpointMeta(boom[1], datetime_from_iso_format(boom[2]),
                     IF Len(boom) = 2 THEN None ELSE boom[3])

from_string(string) ==
  LET boom == str_split(string, "_", 2)
  IN  CheckpointMeta(boom[1], datetime_from_iso_format(boom[2]),
                     IF Len(boom) = 2 THEN None ELSE boom[3])

(***************************************************************************)
(* The storage engine: a blob pool (checksum -> bytes) and a catalog       *)
(* (checkpoint identifier -> document).                                    *)
(***************************************************************************)
RECURSIVE lookup(_, _)
lookup(e, names) ==
  IF Len(names) = 0 THEN e
  ELSE LET i == CHOOSE j \in 1..Len(e.listing) : e.listing[j].name = Head(names)
       IN  lookup(e.listing[i].entry, Tail(names))

\* the entry at os.path.join(sourceRootPath, path)
EntryAt(root, path) ==
  lookup(root, IF Len(path) = 0 THEN <<>> ELSE str_split(path, "/", -1))

RECURSIVE store_blobs(_, _, _)
\* the loop of store over checkpoint.iter(): a file's or symlink's content is
\* written under its checksum unless a blob of that checksum exists
store_blobs(pairs, root, pool) ==
  IF Len(pairs) = 0 THEN pool
  ELSE LET node == Head(pairs).node
           write == /\ node.type \in {"file", "symlink"}
                    /\ node.checksum \notin DOMAIN pool.blobs
       IN  store_blobs(Tail(pairs), root,
             IF write
             THEN [blobs |-> pool.blobs @@
                             (node.checksum :> EntryAt(root, Head(pairs).path).data),
                   written |-> Append(pool.written, node.checksum)]
             ELSE pool)

RECURSIVE restore_nodes(_, _, _)
\* the loop of retrieve over checkpoint.iter(): each entry is created, then
\* its permission bits are set; a missing blob ends the restore
restore_nodes(pairs, blobs, dest) ==
  IF Len(pairs) = 0 THEN [status |-> "ok", dest |-> dest, missing |-> <<>>]
  ELSE LET node == Head(pairs).node
           path == Head(pairs).path
       IN  IF node.type = "directory"
           THEN restore_nodes(Tail(pairs), blobs,
                  dest \cup {[path |-> path, kind |-> "dir", data |-> <<>>,
                              perm |-> node.permissions]})
           ELSE IF node.checksum \notin DOMAIN blobs
           THEN [status |-> "MissingBlob", dest |-> dest, missing |-> node.checksum]
           ELSE restore_nodes(Tail(pairs), blobs,
                  dest \cup {[path |-> path, kind |-> node.type,
                              data |-> blobs[node.checksum],
                              perm |-> node.permissions]})

(***************************************************************************)
(* The inputs drawn.                                                       *)
(***************************************************************************)
EntryNames == {<<"a">>, <<"b">>}

\* the listings with distinct names, in every order os.listdir may give
Listings(entries) ==
  UNION {{l \in [1..n -> [name : EntryNames, entry : entries]] :
            \A i, j \in 1..n : i # j => l[i].name # l[j].name}
         : n \in 0..Cardinality(EntryNames)}

RECURSIVE Contents(_)
\* the byte strings of at most n bytes
Contents(n) ==
  IF n = 0 THEN {<<>>}
  ELSE Contents(n - 1) \cup {Append(c, "x") : c \in {d \in Contents(n - 1) : Len(d) = n - 1}}

\* what a directory of the backed-up tree holds, in the storage runs
StoreEntries ==
  {File(<<"x">>, 420), File(<<"y">>, 384),
   Symlink(<<"x">>, "file"), Symlink(<<"y">>, "none"),
   Dir(<<[name |-> <<"a">>, entry |-> File(<<"x">>, 420)]>>, 448)}

StoreTrees == {Dir(l, 493) : l \in Listings(StoreEntries)}

\* what a directory holds, in the build runs
BuildEntries ==
  {File(c, p) : c \in Contents(MaxBytes), p \in {420, 384}}
  \cup {Symlink(<<"x">>, r) : r \in {"file", "dir", "none"}}
  \cup {Other, Dir(<<>>, 448),
        Dir(<<[name |-> <<"b">>, entry |-> File(<<"x">>, 420)]>>, 493)}

BuildTrees == {Dir(l, 493) : l \in Listings(BuildEntries)}

RECURSIVE IterEntries(_)
\* the entries of at most depth levels of directories
IterEntries(depth) ==
  IF depth = 0 THEN {File(<<"x">>, 420)}
  ELSE {File(<<"x">>, 420)} \cup {Dir(l, 493) : l \in Listings(IterEntries(depth - 1))}

IterTrees == {e \in IterEntries(MaxDepth) : e.kind = "dir"}

Times == {[second |-> 7, microsecond |-> 0], [second |-> 7, microsecond |-> 250000],
          [second |-> 59, microsecond |-> 0], [second |-> 59, microsecond |-> 999999]}

StoreTimes == {[second |-> 7, microsecond |-> 0], [second |-> 7, microsecond |-> 250000]}

later(t, u) ==
  \/ t.second < u.second
  \/ t.second = u.second /\ t.microsecond < u.microsecond

RECURSIVE Strings(_, _)
\* the strings of at most n characters of chars
Strings(chars, n) ==
  IF n = 0 THEN {<<>>}
  ELSE Strings(chars, n - 1)
       \cup {Append(w, c) : w \in {v \in Strings(chars, n - 1) : Len(v) = n - 1}, c \in chars}

\* the names a caller may pass, valid or not
Names == {None} \cup Strings({"a", "_", " ", "\n"}, MaxNameLen)

\* the root checksums an identifier is made of: as many hex characters each
Checksums == {<<"0", "a">>, <<"c", "4">>}

EmptyMap == [k \in {} |-> <<>>]

(***************************************************************************)
(* The state.                                                              *)
(***************************************************************************)
VARIABLES
  checkpoints,  \* the checkpoints built, each with the tree it was built from
  blobs,        \* the blob pool
  catalog,      \* the catalog
  written,      \* the checksums store wrote a blob for, in order
  lost,         \* the checksums whose blob was lost
  restored,     \* the last retrieve: its id, the pool it read, its outcome
  walked,       \* the checkpoint a running iter() walks
  stack,        \* the stack of that iter()
  yielded,      \* what it has yielded so far
  made,         \* the last construction of a Checkpoint: how, the name, the result
  doc,          \* the last document to_json wrote
  back,         \* the last result of from_json
  ident         \* the last CheckpointMeta, its string, and the string parsed back

storageVars == <<checkpoints, blobs, catalog, written, lost, restored>>
iterVars == <<walked, stack, yielded>>
jsonVars == <<made, doc, back>>
vars == <<storageVars, iterVars, jsonVars, ident>>

NotRestored ==
  [id |-> <<>>, pool |-> {}, status |-> "none", dest |-> {}, missing |-> <<>>]

NoCheckpoint == Checkpoint(NoneNode, ValueError, None)

NoMeta == CheckpointMeta(<<>>, ValueError, None)

NoDocument == [root |-> to_dict(NoneNode), time |-> <<>>, name |-> None]

Init ==
  /\ checkpoints = <<>>
  /\ blobs = EmptyMap
  /\ catalog = EmptyMap
  /\ written = <<>>
  /\ lost = {}
  /\ restored = NotRestored
  /\ walked = NoCheckpoint
  /\ stack = <<>>
  /\ yielded = <<>>
  /\ made = [via |-> "none", name |-> None, result |-> NoCheckpoint]
  /\ doc = NoDocument
  /\ back = NoCheckpoint
  /\ ident = [step |-> "none", meta |-> NoMeta, string |-> <<>>, parsed |-> NoMeta]

(***************************************************************************)
(* Backup and restore.                                                     *)
(***************************************************************************)
\* checkpoint = Checkpoint.build_checkpoint(path): the clock only moves forward
Build(trees, times) ==
  /\ \E t \in trees, now \in times :
       /\ \A i \in 1..Len(checkpoints) : later(checkpoints[i].cp.time, now)
       /\ checkpoints' = Append(checkpoints,
            [src |-> t, cp |-> build_checkpoint(t, None, now), stored |-> FALSE])
  /\ UNCHANGED <<blobs, catalog, written, lost, restored, iterVars, jsonVars, ident>>

BuildCheckpoint == Build(StoreTrees, StoreTimes)

\* storage.store(path, checkpoint), with the tree the checkpoint was built from
Store ==
  \E i \in 1..Len(checkpoints) :
    /\ ~checkpoints[i].stored
    /\ LET c == checkpoints[i]
           pool == store_blobs(iter(c.cp), c.src, [blobs |-> blobs, written |-> written])
       IN  /\ blobs' = pool.blobs
           /\ written' = pool.written
           /\ catalog' = (to_string(meta(c.cp)) :> to_json(c.cp)) @@ catalog
    /\ checkpoints' = [checkpoints EXCEPT ![i].stored = TRUE]
    /\ UNCHANGED <<lost, restored, iterVars, jsonVars, ident>>

\* storage.retrieve(path, checkpoint_id) into an empty directory
Retrieve ==
  \E id \in DOMAIN catalog :
    /\ LET r == restore_nodes(iter(from_json(catalog[id])), blobs, {})
       IN  restored' = [id |-> id, pool |-> DOMAIN blobs, status |-> r.status,
                        dest |-> r.dest, missing |-> r.missing]
    /\ UNCHANGED <<checkpoints, blobs, catalog, written, lost, iterVars, jsonVars, ident>>

\* corruption of the storage directory: a blob file disappears
LoseBlob ==
  /\ Cardinality(lost) < MaxLost
  /\ \E c \in DOMAIN blobs :
       /\ blobs' = [k \in DOMAIN blobs \ {c} |-> blobs[k]]
       /\ lost' = lost \cup {c}
  /\ UNCHANGED <<checkpoints, catalog, written, restored, iterVars, jsonVars, ident>>

Next == BuildCheckpoint \/ Store \/ Retrieve \/ LoseBlob

Spec == Init /\ [][Next]_vars

(***************************************************************************)
(* Building alone, over more kinds of entries.                             *)
(***************************************************************************)
BuildAny == Build(BuildTrees, StoreTimes)

SpecBuild == Init /\ [][BuildAny]_vars

(***************************************************************************)
(* Checkpoint.iter(), one turn of its loop at a time.                      *)
(***************************************************************************)
\* checkpoint.iter() is called and runs to its first yield
IterStart ==
  /\ walked = NoCheckpoint
  /\ \E t \in IterTrees : walked' = build_checkpoint(t, None, CHOOSE now \in Times : TRUE)
  /\ stack' = iter_step(<<[node |-> walked'.root, path |-> <<>>]>>).stack
  /\ yielded' = <<iter_step(<<[node |-> walked'.root, path |-> <<>>]>>).yield>>
  /\ UNCHANGED <<storageVars, jsonVars, ident>>

\* the generator is resumed: the next turn of the loop, to its yield
IterNext ==
  /\ Len(stack) > 0
  /\ stack' = iter_step(stack).stack
  /\ yielded' = Append(yielded, iter_step(stack).yield)
  /\ UNCHANGED <<walked, storageVars, jsonVars, ident>>

NextIter == IterStart \/ IterNext

SpecIter == Init /\ [][NextIter]_vars

(***************************************************************************)
(* Construction and the document.                                          *)
(***************************************************************************)
JsonTrees ==
  {Dir(<<>>, 493),
   Dir(<<[name |-> <<"b">>, entry |-> File(<<"x">>, 384)],
         [name |-> <<"a">>, entry |-> Dir(<<[name |-> <<"a">>,
                                            entry |-> Symlink(<<"y">>, "dir")]>>, 448)]>>, 493)}

\* Checkpoint(root, time, name)
Construct ==
  /\ made.via = "none"
  /\ \E t \in JsonTrees, time \in Times, name \in Names :
       made' = [via |-> "init", name |-> name,
                result |-> Checkpoint(TreeNode_build_node(t, <<>>), time, name)]
  /\ UNCHANGED <<doc, back, storageVars, iterVars, ident>>

\* Checkpoint.build_checkpoint(path, name)
BuildNamed ==
  /\ made.via = "none"
  /\ \E t \in JsonTrees, now \in Times, name \in Names :
       made' = [via |-> "build_checkpoint", name |-> name,
                result |-> build_checkpoint(t, name, now)]
  /\ UNCHANGED <<doc, back, storageVars, iterVars, ident>>

\* checkpoint.to_json() of the checkpoint constructed last
ToJson ==
  /\ made.result.raised = ""
  /\ made.via # "none"
  /\ doc = NoDocument
  /\ doc' = to_json(made.result)
  /\ UNCHANGED <<made, back, storageVars, iterVars, ident>>

\* Checkpoint.from_json(json_str) of the document written last
FromJson ==
  /\ doc # NoDocument
  /\ back = NoCheckpoint
  /\ back' = from_json(doc)
  /\ UNCHANGED <<made, doc, storageVars, iterVars, ident>>

\* Checkpoint.from_json(json_str) of a document that carries any name
FromJsonNamed ==
  /\ made.via = "none"
  /\ \E t \in JsonTrees, time \in Times, name \in Names :
       made' = [via |-> "from_json", name |-> name,
                result |-> from_json([root |-> to_dict(TreeNode_build_node(t, <<>>)),
                                      time |-> isoformat(time), name |-> name])]
  /\ UNCHANGED <<doc, back, storageVars, iterVars, ident>>

NextJson == Construct \/ BuildNamed \/ ToJson \/ FromJson \/ FromJsonNamed

SpecJson == Init /\ [][NextJson]_vars

(***************************************************************************)
(* The identifier.                                                         *)
(***************************************************************************)
\* the names the pattern is written for
ValidNames == {n \in Strings({"a", "_", "."}, MaxNameLen) : Len(n) > 0}

\* CheckpointMeta(checksum, time, name)
MakeMeta ==
  /\ ident.step = "none"
  /\ \E checksum \in Checksums, time \in Times, name \in ValidNames \cup {None} :
       ident' = [step |-> "made", meta |-> CheckpointMeta(checksum, time, name),
                 string |-> <<>>, parsed |-> NoMeta]
  /\ UNCHANGED <<storageVars, iterVars, jsonVars>>

\* meta.to_string()
PrintMeta ==
  /\ ident.step = "made"
  /\ ident' = [ident EXCEPT !.step = "printed", !.string = to_string(ident.meta)]
  /\ UNCHANGED <<storageVars, iterVars, jsonVars>>

\* CheckpointMeta.from_string(string)
ParseMeta ==
  /\ ident.step = "printed"
  /\ ident' = [ident EXCEPT !.step = "parsed", !.parsed = from_string(ident.string)]
  /\ UNCHANGED <<storageVars, iterVars, jsonVars>>

NextMeta == MakeMeta \/ PrintMeta \/ ParseMeta

SpecMeta == Init /\ [][NextMeta]_vars

(***************************************************************************)
(* What the properties below speak of.                                     *)
(***************************************************************************)
\* the entry a directory lists under name
Listed(e, name) ==
  e.listing[CHOOSE i \in 1..Len(e.listing) : e.listing[i].name = name].entry

JoinPath(path, name) == IF path = <<>> THEN name ELSE path \o <<"/">> \o name

RECURSIVE Items(_, _, _)
\* every node of a built tree, with the entry it was built from and its path
Items(node, e, path) ==
  {[node |-> node, entry |-> e, path |-> path]}
  \cup UNION {Items(node.children[i].node, Listed(e, node.children[i].key),
                    JoinPath(path, node.children[i].key))
              : i \in 1..Len(node.children)}

\* every node of every checkpoint built
BuiltItems ==
  UNION {Items(checkpoints[i].cp.root, checkpoints[i].src, <<>>)
         : i \in 1..Len(checkpoints)}

RECURSIVE Flatten(_, _)
\* a tree as the set of its entries, each at its relative path
Flatten(e, path) ==
  {[path |-> path, kind |-> e.kind, data |-> e.data, perm |-> e.perm]}
  \cup UNION {Flatten(e.listing[i].entry, JoinPath(path, e.listing[i].name))
              : i \in 1..Len(e.listing)}

RECURSIVE DocNodes(_, _)
\* the nodes a document holds, each at its relative path
DocNodes(d, path) ==
  {[type |-> d.type, name |-> d.name, checksum |-> d.checksum,
    permissions |-> d.permissions, path |-> path,
    names |-> {d.children[i].name : i \in 1..Len(d.children)}]}
  \cup UNION {DocNodes(d.children[i], JoinPath(path, d.children[i].name))
              : i \in 1..Len(d.children)}

RECURSIVE TreeNodes(_, _)
\* the nodes of a tree of nodes, each at its relative path
TreeNodes(node, path) ==
  {[type |-> node.type, name |-> node.name, checksum |-> node.checksum,
    permissions |-> node.permissions, path |-> path,
    names |-> {node.children[i].key : i \in 1..Len(node.children)}]}
  \cup UNION {TreeNodes(node.children[i].node, JoinPath(path, node.children[i].key))
              : i \in 1..Len(node.children)}

RECURSIVE Preorder(_, _, _)
\* the depth-first order of a tree, root first; the children of a directory
\* first-inserted first, or last-inserted first when reversed
Preorder(node, path, reversed) ==
  LET n == Len(node.children)
      child(i) == node.children[IF reversed THEN n + 1 - i ELSE i]
      sub[i \in 0..n] ==
        IF i = 0 THEN <<>>
        ELSE sub[i - 1] \o Preorder(child(i).node, JoinPath(path, child(i).key), reversed)
  IN  <<[node |-> node, path |-> path]>> \o sub[n]

IsPrefix(s, t) == Len(s) <= Len(t) /\ SubSeq(t, 1, Len(s)) = s

(***************************************************************************)
(* C1.                                                                     *)
(***************************************************************************)
RECURSIVE OnlySupported(_)
\* a tree made of files, directories and symlinks
OnlySupported(e) ==
  /\ e.kind \in {"file", "dir", "symlink"}
  /\ \A i \in 1..Len(e.listing) : OnlySupported(e.listing[i].entry)

\* the retrieve was of the one checkpoint stored, with no blob lost
RestoredTheOnlyOne ==
  /\ restored.status # "none"
  /\ DOMAIN catalog = {restored.id}
  /\ lost = {}

\* C1: a tree of files, directories and symlinks that is built, stored into an
\* empty storage and retrieved into an empty destination comes back with the
\* same paths and, at each path, the same kind, bytes, link target and
\* permission bits.
C1_RestoreFidelity ==
  RestoredTheOnlyOne =>
    \A i \in 1..Len(checkpoints) :
      (checkpoints[i].stored /\ OnlySupported(checkpoints[i].src)) =>
        /\ restored.status = "ok"
        /\ restored.dest = Flatten(checkpoints[i].src, <<>>)

(***************************************************************************)
(* C2.                                                                     *)
(***************************************************************************)
\* the file and symlink nodes of the checkpoints stored
StoredLeaves ==
  UNION {{it \in Items(checkpoints[i].cp.root, checkpoints[i].src, <<>>) :
            it.node.type \in {"file", "symlink"}}
         : i \in {j \in 1..Len(checkpoints) : checkpoints[j].stored}}

\* C2: when no blob was lost, the pool holds one blob per distinct checksum
\* of the file and symlink nodes stored, as many blobs as these nodes have
\* distinct contents, each blob holding that content, and store wrote each
\* of them once.
C2_DedupInvariant ==
  lost = {} =>
    /\ DOMAIN blobs = {it.node.checksum : it \in StoredLeaves}
    /\ Cardinality(DOMAIN blobs) = Cardinality({it.entry.data : it \in StoredLeaves})
    /\ \A it \in StoredLeaves : blobs[it.node.checksum] = it.entry.data
    /\ Len(written) = Cardinality(DOMAIN blobs)
    /\ {written[i] : i \in 1..Len(written)} = DOMAIN blobs

\* two checkpoints are stored and share content, within one and across both
C2_Witness ==
  /\ lost = {}
  /\ Len(checkpoints) = 2
  /\ \A i \in 1..2 : checkpoints[i].stored
  /\ Cardinality(DOMAIN blobs) = 2
  /\ Cardinality(StoredLeaves) >= 4
  /\ checkpoints[1].src # checkpoints[2].src

(***************************************************************************)
(* C3.                                                                     *)
(***************************************************************************)
\* the file nodes of the document retrieved whose blob the pool did not hold
MissingFiles ==
  {n \in DocNodes(catalog[restored.id].root, <<>>) :
     n.type = "file" /\ n.checksum \notin restored.pool}

\* C3: a retrieve of a document that references a file checksum with no blob
\* ends in MissingBlob, and the destination holds nothing at the path of any
\* file node whose blob is missing.
C3_MissingBlob ==
  (restored.status # "none" /\ MissingFiles # {}) =>
    /\ restored.status = "MissingBlob"
    /\ \A n \in MissingFiles : \A d \in restored.dest : d.path # n.path

\* a retrieve failed on a missing file blob after it had restored other entries
C3_Witness ==
  /\ restored.status = "MissingBlob"
  /\ MissingFiles # {}
  /\ \E d \in restored.dest : d.kind \in {"file", "symlink"}

(***************************************************************************)
(* C4.                                                                     *)
(***************************************************************************)
\* C4: parsing the string of an identifier gives back its checksum, its time
\* to the microsecond, and its name (absent stays absent), for names with
\* underscores too.
C4_IdentifierRoundTrip ==
  ident.step = "parsed" =>
    /\ ident.parsed.checksum = ident.meta.checksum
    /\ ident.parsed.time = ident.meta.time
    /\ ident.parsed.name = ident.meta.name

\* an identifier whose name has two underscores and whose time has no
\* microseconds was printed and parsed
C4_Witness ==
  /\ ident.step = "parsed"
  /\ ident.meta.name = <<"_", "a", "_">>
  /\ ident.meta.time.microsecond = 0
  /\ Len(ident.string) > 26

(***************************************************************************)
(* C5.                                                                     *)
(***************************************************************************)
\* C5: from_json(to_json(c)) has the root checksum, time and name of c, and at
\* every path a node of the same kind, name, checksum and permissions, with
\* the same child names.
C5_DocumentRoundTrip ==
  back # NoCheckpoint =>
    /\ back.raised = ""
    /\ back.root.checksum = made.result.root.checksum
    /\ back.time = made.result.time
    /\ back.name = made.result.name
    /\ TreeNodes(back.root, <<>>) = TreeNodes(made.result.root, <<>>)

\* a named checkpoint of a tree with a directory, a file and a symlink, taken
\* at a time without microseconds, went through the document and back
C5_Witness ==
  /\ back # NoCheckpoint
  /\ back.name = <<"a", "_">>
  /\ made.result.time.microsecond = 0
  /\ Cardinality(TreeNodes(made.result.root, <<>>)) = 4

(***************************************************************************)
(* C6.                                                                     *)
(***************************************************************************)
\* C6: a Checkpoint is constructed if and only if the name is absent or is a
\* non-empty string of letters, digits, '_', '.' and '-' only.
C6_NameValidation ==
  made.via # "none" =>
    (made.result.raised = ""
       <=> \/ made.name = None
           \/ /\ Len(made.name) > 0
              /\ \A i \in 1..Len(made.name) : made.name[i] \in NameChars)

(***************************************************************************)
(* C7.                                                                     *)
(***************************************************************************)
RECURSIVE ContentIdentical(_, _)
\* two built nodes are of one kind, with the same bytes or target, or the same
\* child names and identical children under each
ContentIdentical(a, b) ==
  /\ a.node.type = b.node.type
  /\ a.node.type \in {"file", "symlink"} => a.entry.data = b.entry.data
  /\ a.node.type = "directory" =>
       /\ dict_keys(a.node.children) = dict_keys(b.node.children)
       /\ \A k \in dict_keys(a.node.children) :
            ContentIdentical(
              [node |-> dict_get(a.node.children, k), entry |-> Listed(a.entry, k)],
              [node |-> dict_get(b.node.children, k), entry |-> Listed(b.entry, k)])

\* C7: any two built nodes with equal checksums are content-identical.
C7_EqualChecksumIdentical ==
  \A a, b \in BuiltItems :
    a.node.checksum = b.node.checksum => ContentIdentical(a, b)

\* the checksums of the children of a directory node, in ascending name order
ChildChecksums(node) ==
  LET names == sorted(dict_keys(node.children))
  IN  [i \in 1..Len(names) |-> dict_get(node.children, names[i]).checksum]

RECURSIVE Concat(_)
Concat(seqs) == IF Len(seqs) = 0 THEN <<>> ELSE Head(seqs) \o Concat(Tail(seqs))

\* C7, amended: two built nodes with equal checksums were hashed from the same
\* bytes.  Two files or symlinks have the same bytes or target string, of
\* whichever kind each is; two directories have children with pairwise equal
\* checksums, taken in ascending name order; a directory and a file or
\* symlink have the concatenated child checksums as the bytes or target.
C7_EqualChecksumSameBytes ==
  \A a, b \in BuiltItems :
    a.node.checksum = b.node.checksum =>
      /\ (a.node.type # "directory" /\ b.node.type # "directory") =>
           a.entry.data = b.entry.data
      /\ (a.node.type = "directory" /\ b.node.type = "directory") =>
           ChildChecksums(a.node) = ChildChecksums(b.node)
      /\ (a.node.type = "directory" /\ b.node.type # "directory") =>
           Concat(ChildChecksums(a.node)) = b.entry.data

\* a file and a symlink with equal checksums, and two directories with equal
\* checksums that list one file under different names
C7_Witness ==
  /\ \E a, b \in BuiltItems :
       /\ a.node.type = "file" /\ b.node.type = "symlink"
       /\ a.node.checksum = b.node.checksum
  /\ \E a, b \in BuiltItems :
       /\ a.node.type = "directory" /\ b.node.type = "directory"
       /\ a.node.checksum = b.node.checksum
       /\ Len(a.node.children) = 1
       /\ dict_keys(a.node.children) # dict_keys(b.node.children)

(***************************************************************************)
(* C8.                                                                     *)
(***************************************************************************)
RECURSIVE SameContent(_, _)
\* two trees have the same names and, at every path, the same kind of entry
\* with the same file bytes or symlink target
SameContent(e, f) ==
  /\ e.kind = f.kind
  /\ e.data = f.data
  /\ {e.listing[i].name : i \in 1..Len(e.listing)}
       = {f.listing[i].name : i \in 1..Len(f.listing)}
  /\ \A i \in 1..Len(e.listing) :
       SameContent(e.listing[i].entry, Listed(f, e.listing[i].name))

\* C8: two trees with the same names, file bytes and symlink targets at every
\* path build the same root checksum, whatever the permission bits, the
\* listing order and the capture time.
C8_ChecksumIndependence ==
  \A i, j \in 1..Len(checkpoints) :
    SameContent(checkpoints[i].src, checkpoints[j].src) =>
      checkpoints[i].cp.root.checksum = checkpoints[j].cp.root.checksum

(***************************************************************************)
(* C9.                                                                     *)
(***************************************************************************)
\* C9: iter() ends having yielded every node once with its path, root first,
\* depth-first, the children of a directory first-inserted first.
C9_TraversalOrder ==
  (walked # NoCheckpoint /\ Len(stack) = 0) =>
    yielded = Preorder(walked.root, <<>>, FALSE)

\* C9, amended: iter() ends having yielded every node once with its path, root
\* first, depth-first, the children of a directory last-inserted first; until
\* then it has yielded the beginning of that order.
C9_ReverseSiblingOrder ==
  walked # NoCheckpoint =>
    /\ IsPrefix(yielded, Preorder(walked.root, <<>>, TRUE))
    /\ Len(stack) = 0 <=> yielded = Preorder(walked.root, <<>>, TRUE)

\* a walk ended on a tree whose root and whose second child both list two
\* entries
C9_Witness ==
  /\ walked # NoCheckpoint
  /\ Len(stack) = 0
  /\ Len(walked.root.children) = 2
  /\ Len(walked.root.children[2].node.children) = 2
  /\ Len(yielded) = 5

(***************************************************************************)
(* C10.                                                                    *)
(***************************************************************************)
NodeType(kind) == IF kind = "dir" THEN "directory" ELSE kind

\* C10: the children of a directory node are the listed entries that are a
\* file, a directory or a symlink, each under its name and of its kind; only
\* entries of other kinds are skipped.
C10_EntryClassification ==
  \A it \in BuiltItems :
    it.node.type = "directory" =>
      /\ dict_keys(it.node.children)
           = {it.entry.listing[i].name : i \in
                {j \in 1..Len(it.entry.listing) :
                   it.entry.listing[j].entry.kind \in {"file", "dir", "symlink"}}}
      /\ \A k \in dict_keys(it.node.children) :
           dict_get(it.node.children, k).type = NodeType(Listed(it.entry, k).kind)

====
